---- MODULE Spec2Model ----
(***************************************************************************)
(* Wheel-Simulation (src/script.js): the simulation state object, the      *)
(* requestAnimationFrame loop (animate), startAnimation / pauseAnimation / *)
(* resetSimulation and the UI event handlers that drive them.              *)
(*                                                                         *)
(* Number representation (JavaScript doubles are idealised as rationals):  *)
(*   - revolutions (currentRevolutions, targetRevolutions) are integers    *)
(*     counting 1/RevUnit of a revolution;                                 *)
(*   - speedMultiplier counts halves (0.5 -> 1, 1 -> 2, 2 -> 4);           *)
(*   - timestamps are milliseconds, frame deltas are whole seconds, so     *)
(*     that every dRev is an exact multiple of 1/RevUnit;                  *)
(*   - pi, the circumference and pixelScale are fractions [n, d].          *)
(***************************************************************************)
EXTENDS Integers, Naturals, Sequences, FiniteSets, TLC

\* ---------------------------------------------------------------- bounds
MaxSeconds == 8
MaxPending == 2
MaxTimers == 1
MaxEvents == 4

\* ------------------------------------------------------- representation
\* one revolution; a multiple of 4 * 314 * r and of 4 * 22 * r for every
\* radius r of the model (1, 20, 56), so that dRev below divides exactly
RevUnit == 13816 * 280
SpeedUnit == 2
\* a parsed number (parseFloat): NaN, or the number v
NaN == [nan |-> TRUE, v |-> 0]
Num(v) == [nan |-> FALSE, v |-> v]

\* ------------------------------------------------------------ input sets
FrameDeltas == {1000, 7000}
RadiusInputs == {NaN, Num(0), Num(1), Num(20)}
RevInputs == {NaN, Num(-1), Num(2)}
SpeedButtons == {1, 2, 4}
PiModes == {"3.14", "22_7"}
QuizRadii == {20}
QuizRevs == {3}
AnswerInputs == {NaN, Num(0), Num(377)}
Viewports == {[width |-> 1000, height |-> 600], [width |-> 30, height |-> 60]}

\* state              the `state` object (script.js lines 2-14, quizCallback added
\*                    at line 566)
\* canvas             canvas.width / canvas.height
\* rafPending         animate callbacks requested for the next animation frame
\* rafRunning         callbacks of the frame in progress that have not run yet
\* now                the timestamp of the last animation frame (ms)
\* demoTimers         pending setTimeout(startAnimation, 1000) of the demo button
\* fsTimers           pending setTimeout(..., 100) of fullscreenchange
\* currentQuizAnswer  the quiz answer key
\* quizCallbackCalls  history: calls of state.quizCallback since the last
\*                    startAnimation()
\* ticksSinceStart    history: animate() calls since the last startAnimation(),
\*                    counted up to 2
\* shown              what updateUI() last wrote to the numeric displays
\* drawn              what draw() last rendered on the canvas
\* quizQuestion       the radius and revolutions of the quiz question on screen
\* probe              inputs and results of the draw() / updatePixelScale()
\*                    computations examined on their own (SpecProbe)
\* events             history: number of events dispatched so far
\* lastOp             history: the listener or callback that ran last
VARIABLES state, canvas, rafPending, rafRunning, now, demoTimers, fsTimers,
          currentQuizAnswer, shown, drawn, quizQuestion, probe,
          quizCallbackCalls, ticksSinceStart, events, lastOp

vars == <<state, canvas, rafPending, rafRunning, now, demoTimers, fsTimers,
          currentQuizAnswer, shown, drawn, quizQuestion, probe,
          quizCallbackCalls, ticksSinceStart, events, lastOp>>

\* ------------------------------------------------------- math functions
getPiValue(s) ==
    IF s.piMode = "22_7" THEN [n |-> 22, d |-> 7] ELSE [n |-> 314, d |-> 100]

calculateCircumference(s, radius) ==
    [n |-> 2 * getPiValue(s).n * radius, d |-> getPiValue(s).d]

\* a truthiness test, if (val), in place of val > 0
IsPositive_NonZero(val) == ~val.nan /\ val.v # 0

\* parseFloat(...) > 0 : false for NaN, zero and negatives
IsPositive(val) == ~val.nan /\ val.v > 0

\* --------------------------------------------------------- scale model
Ratio(n, d) == [n |-> n, d |-> d]

\* the scale without Math.min(100, ...)
computePixelScale_NoUpperClamp(radius, cv) ==
    LET availableHeight == cv.height - 70
        availableWidth == cv.width - 40
        avail == IF availableHeight < availableWidth THEN availableHeight
                                                      ELSE availableWidth
        idealN == 5 * avail
        idealD == 11 * radius
    IN  IF 1000 * idealN < idealD THEN Ratio(1, 1000)
        ELSE Ratio(idealN, idealD)

computePixelScale(radius, cv) ==
    LET availableHeight == cv.height - 70
        availableWidth == cv.width - 40
        avail == IF availableHeight < availableWidth THEN availableHeight
                                                      ELSE availableWidth
        \* idealScale = avail / (radius * 2.2) = 5*avail / (11*radius)
        idealN == 5 * avail
        idealD == 11 * radius
    IN  IF idealN > 100 * idealD THEN Ratio(100, 1)
        ELSE IF 1000 * idealN < idealD THEN Ratio(1, 1000)
        ELSE Ratio(idealN, idealD)

RECURSIVE Magnitude(_, _, _)
\* 10^floor(log10(n/d)) for n/d >= 1: the largest power of ten <= n/d
Magnitude(n, d, m) == IF 10 * m * d <= n THEN Magnitude(n, d, 10 * m) ELSE m

\* a marker interval that also rounds to 5 times the magnitude
computeMarkerInterval_RoundsToFive(ps) ==
    LET an == 180 * ps.d
        ad == ps.n
        magnitude == Magnitude(an, ad, 1)
        roundInterval == IF 10 * an < 16 * magnitude * ad THEN 1 * magnitude
                         ELSE IF 10 * an < 45 * magnitude * ad THEN 2 * magnitude
                         ELSE IF 10 * an < 75 * magnitude * ad THEN 5 * magnitude
                         ELSE 10 * magnitude
    IN  IF roundInterval < 1 THEN 1 ELSE roundInterval

computeMarkerInterval(ps) ==
    LET \* approximateCmInterval = 180 / pixelScale = (180 * ps.d) / ps.n
        an == 180 * ps.d
        ad == ps.n
        magnitude == Magnitude(an, ad, 1)
        \* leadingDigit = approx / magnitude, compared with 1.6 and 4.5
        roundInterval == IF 10 * an < 16 * magnitude * ad THEN 1 * magnitude
                         ELSE IF 10 * an < 45 * magnitude * ad THEN 2 * magnitude
                         ELSE 10 * magnitude
    IN  IF roundInterval < 1 THEN 1 ELSE roundInterval

updatePixelScale(s, cv) ==
    [s EXCEPT !.pixelScale = computePixelScale(s.radius, cv),
              !.markerInterval = computeMarkerInterval(computePixelScale(s.radius, cv))]

\* ------------------------------------------------------------- display
\* updateUI(): the circumference and the revolutions it reads; the distance
\* display is their product
updateUI(s) ==
    [circumference |-> calculateCircumference(s, s.radius),
     revolutions |-> s.currentRevolutions]

\* draw(): the circumference, revolutions and scale that place and rotate the
\* wheel (currentDistCm = circumference * revolutions, pixelDist =
\* currentDistCm * pixelScale, rotationAngle = currentDistCm / radius)
draw(s) ==
    [circumference |-> calculateCircumference(s, s.radius),
     revolutions |-> s.currentRevolutions,
     pixelScale |-> s.pixelScale]

\* --------------------------------------------------------------- camera
\* pixel lengths of the camera computation count 1/PxUnit of a pixel, so that
\* canvas.width * 0.6 is the whole number canvas.width * 6
PxUnit == 10
startX == 50

\* a camera that starts panning at half of the canvas width
cameraOffset_PansAtHalf(pixelDist, cv) ==
    IF startX * PxUnit + pixelDist > cv.width * 5
    THEN (startX * PxUnit + pixelDist) - cv.width * 5
    ELSE 0

\* offsetX of draw() and of updateTooltip()
cameraOffset(pixelDist, cv) ==
    IF startX * PxUnit + pixelDist > cv.width * 6
    THEN (startX * PxUnit + pixelDist) - cv.width * 6
    ELSE 0

\* where the wheel is painted: wheelX = startX + pixelDist, under
\* ctx.translate(-offsetX, 0)
wheelScreenX(pixelDist, cv) == startX * PxUnit + pixelDist - cameraOffset(pixelDist, cv)

\* ------------------------------------------------------- animation loop
baseSpeed == 30

\* dRev = dDistance / circumference, in 1/RevUnit revolutions, with
\* dDistance = baseSpeed * speedMultiplier * (dt / 1000)
dRev(s, dt) ==
    LET circumference == calculateCircumference(s, s.radius)
    IN  (baseSpeed * s.speedMultiplier * (dt \div 1000) * circumference.d)
          * (RevUnit \div (SpeedUnit * circumference.n))

\* animate() that stops at the target without clamping the overshoot
animate_NoClamp(s, timestamp) ==
    LET lt == IF s.lastTime = 0 THEN timestamp ELSE s.lastTime
        dt == timestamp - lt
        s1 == [s EXCEPT !.lastTime = timestamp]
        advanced == s1.currentRevolutions + dRev(s1, dt)
    IN  IF s1.isPlaying
        THEN [s1 EXCEPT !.currentRevolutions = advanced,
                        !.isPlaying = advanced < s1.targetRevolutions]
        ELSE s1

\* animate() that advances the clock without testing isPlaying
animate_IgnoresPause(s, timestamp) ==
    LET lt == IF s.lastTime = 0 THEN timestamp ELSE s.lastTime
        dt == timestamp - lt
        s1 == [s EXCEPT !.lastTime = timestamp]
        advanced == s1.currentRevolutions + dRev(s1, dt)
    IN  IF advanced >= s1.targetRevolutions
        THEN [s1 EXCEPT !.currentRevolutions = s1.targetRevolutions,
                        !.isPlaying = FALSE]
        ELSE [s1 EXCEPT !.currentRevolutions = advanced]

\* animate() with the operands of the delta swapped
animate_ReversedDelta(s, timestamp) ==
    LET lt == IF s.lastTime = 0 THEN timestamp ELSE s.lastTime
        dt == lt - timestamp
        s1 == [s EXCEPT !.lastTime = timestamp]
        advanced == s1.currentRevolutions + dRev(s1, dt)
    IN  IF s1.isPlaying
        THEN IF advanced >= s1.targetRevolutions
             THEN [s1 EXCEPT !.currentRevolutions = s1.targetRevolutions,
                             !.isPlaying = FALSE]
             ELSE [s1 EXCEPT !.currentRevolutions = advanced]
        ELSE s1

\* animate() that measures the delta after storing the new lastTime
animate_DeltaAfterStore(s, timestamp) ==
    LET s1 == [s EXCEPT !.lastTime = timestamp]
        dt == timestamp - s1.lastTime
        advanced == s1.currentRevolutions + dRev(s1, dt)
    IN  IF s1.isPlaying
        THEN IF advanced >= s1.targetRevolutions
             THEN [s1 EXCEPT !.currentRevolutions = s1.targetRevolutions,
                             !.isPlaying = FALSE]
             ELSE [s1 EXCEPT !.currentRevolutions = advanced]
        ELSE s1

\* the part of animate() up to draw(): lines 309-340
animate(s, timestamp) ==
    LET lt == IF s.lastTime = 0 THEN timestamp ELSE s.lastTime
        dt == timestamp - lt
        s1 == [s EXCEPT !.lastTime = timestamp]
        advanced == s1.currentRevolutions + dRev(s1, dt)
    IN  IF s1.isPlaying
        THEN IF advanced >= s1.targetRevolutions
             THEN [s1 EXCEPT !.currentRevolutions = s1.targetRevolutions,
                             !.isPlaying = FALSE]
             ELSE [s1 EXCEPT !.currentRevolutions = advanced]
        ELSE s1

\* whether the completion branch of animate() calls state.quizCallback
animateCallsQuizCallback(s, timestamp) ==
    /\ s.isPlaying
    /\ ~animate(s, timestamp).isPlaying
    /\ s.mode = "quiz"
    /\ s.quizCallback

\* the updateUI() and draw() calls of one animate(timestamp) in program order,
\* each with the state it reads: the completion branch calls updateUI()
\* ("Final update", line 333) before draw() (342) and updateUI() (343)
animateCalls(s, timestamp) ==
    LET after == animate(s, timestamp)
        completes == s.isPlaying /\ ~after.isPlaying
    IN  (IF completes THEN <<[call |-> "updateUI", reads |-> after]>> ELSE <<>>)
        \o <<[call |-> "draw", reads |-> after],
             [call |-> "updateUI", reads |-> after]>>

\* a loop that requests the next frame unconditionally
animateReschedules_Always(s) == TRUE

\* a loop that goes on only while the wheel is rolling
animateReschedules_OnlyWhilePlaying(s) == s.isPlaying

\* the tail of animate(): request the next frame or let the loop end
animateReschedules(s) == s.isPlaying \/ s.currentRevolutions > 0

\* startAnimation() without the rewind of a finished run
startAnimation_NoRewind(s) == [s EXCEPT !.isPlaying = TRUE, !.lastTime = 0]

\* startAnimation() that keeps the timestamp of the last frame
startAnimation_KeepsLastTime(s) ==
    [s EXCEPT !.currentRevolutions =
                 IF s.currentRevolutions >= s.targetRevolutions THEN 0
                 ELSE s.currentRevolutions,
              !.isPlaying = TRUE]

startAnimation(s) ==
    [s EXCEPT !.currentRevolutions =
                 IF s.currentRevolutions >= s.targetRevolutions THEN 0
                 ELSE s.currentRevolutions,
              !.isPlaying = TRUE,
              !.lastTime = 0]

\* number of frames startAnimation() requests
startAnimationRequests == 1

pauseAnimation(s) == [s EXCEPT !.isPlaying = FALSE]

\* resetSimulation() that keeps the timestamp of the last frame
resetSimulation_KeepsLastTime(s) ==
    [s EXCEPT !.isPlaying = FALSE, !.currentRevolutions = 0]

resetSimulation(s) ==
    [s EXCEPT !.isPlaying = FALSE, !.currentRevolutions = 0, !.lastTime = 0]

\* ----------------------------------------------------------------- Init
InitCanvas == [width |-> 1000, height |-> 600]

InitState ==
    updatePixelScale(
        [radius |-> 56,
         targetRevolutions |-> 10 * RevUnit,
         currentRevolutions |-> 0,
         speedMultiplier |-> 1 * SpeedUnit,
         isPlaying |-> FALSE,
         mode |-> "free",
         stepIndex |-> 0,
         lastTime |-> 0,
         pixelScale |-> Ratio(2, 1),
         piMode |-> "3.14",
         markerInterval |-> 100,
         quizCallback |-> FALSE],
        InitCanvas)

\* the canvas before the first draw(): the script's last lines call
\* resizeCanvas(), updatePixelScale() and updateUI(), and not draw()
BlankCanvas == [circumference |-> Ratio(0, 1), revolutions |-> 0, pixelScale |-> Ratio(0, 1)]

\* els.quizQuestion before the first quiz is started
NoQuestion == [r |-> 0, rev |-> 0]

\* no computation is being examined on its own
NoProbe ==
    [op |-> "none", radius |-> 0, canvas |-> [width |-> 0, height |-> 0],
     pixelDist |-> 0, pixelScale |-> Ratio(0, 1), markerInterval |-> 0, offsetX |-> 0]

\* the page after the script has run, whatever is being probed
InitProgram ==
    /\ state = InitState
    /\ canvas = InitCanvas
    /\ rafPending = 0
    /\ rafRunning = 0
    /\ now = 1000
    /\ demoTimers = 0
    /\ fsTimers = 0
    /\ currentQuizAnswer = Ratio(0, 1)
    /\ shown = updateUI(state)
    /\ drawn = BlankCanvas
    /\ quizQuestion = NoQuestion
    /\ quizCallbackCalls = 0
    /\ ticksSinceStart = 0
    /\ events = 0
    /\ lastOp = "init"

Init ==
    /\ InitProgram
    /\ probe = NoProbe

\* ------------------------------------------------------ frame delivery
\* A user or window event is dispatched to its listener between frames;
\* lastOp records which listener or callback ran last.
Dispatch(op) ==
    /\ rafRunning = 0
    /\ events < MaxEvents
    /\ events' = events + 1
    /\ lastOp' = op

\* a timer or frame callback runs
Callback(op) ==
    /\ lastOp' = op
    /\ UNCHANGED events

\* requestAnimationFrame(animate) at the end of startAnimation()
RequestFrame ==
    /\ rafPending + startAnimationRequests <= MaxPending
    /\ rafPending' = rafPending + startAnimationRequests
    /\ quizCallbackCalls' = 0
    /\ ticksSinceStart' = 0

NoRequest == UNCHANGED <<rafPending, quizCallbackCalls, ticksSinceStart>>

\* The browser starts an animation frame: every callback requested so far
\* runs in this frame with the same timestamp.
BeginFrame ==
    \E d \in FrameDeltas :
        /\ rafRunning = 0
        /\ rafPending > 0
        /\ now + d <= MaxSeconds * 1000
        /\ Callback("frame")
        /\ now' = now + d
        /\ rafRunning' = rafPending
        /\ rafPending' = 0
        /\ UNCHANGED <<state, canvas, demoTimers, fsTimers, currentQuizAnswer,
                       shown, drawn, quizQuestion, probe,
                       quizCallbackCalls, ticksSinceStart>>

\* one call of animate(timestamp)
Animate ==
    /\ rafRunning > 0
    /\ Callback("animate")
    /\ state' = animate(state, now)
    /\ quizCallbackCalls' = IF animateCallsQuizCallback(state, now)
                            THEN quizCallbackCalls + 1 ELSE quizCallbackCalls
    /\ ticksSinceStart' = IF ticksSinceStart < 2 THEN ticksSinceStart + 1 ELSE 2
    /\ rafRunning' = rafRunning - 1
    /\ rafPending' = IF animateReschedules(state') THEN rafPending + 1 ELSE rafPending
    /\ drawn' = draw(state')
    /\ shown' = updateUI(state')
    /\ UNCHANGED <<canvas, now, demoTimers, fsTimers, currentQuizAnswer,
                   quizQuestion, probe>>

\* ------------------------------------------------------------ handlers
ClickPlayPause ==
    /\ Dispatch("playPause")
    /\ IF state.isPlaying
       THEN /\ state' = pauseAnimation(state)
            /\ NoRequest
       ELSE /\ state' = startAnimation(state)
            /\ RequestFrame
    /\ UNCHANGED <<shown, drawn>>
    /\ UNCHANGED <<canvas, rafRunning, now, demoTimers, fsTimers, currentQuizAnswer,
                 quizQuestion, probe>>

ClickReset ==
    /\ Dispatch("reset")
    /\ state' = resetSimulation(state)
    /\ NoRequest
    /\ shown' = updateUI(state')
    /\ drawn' = draw(state')
    /\ UNCHANGED <<canvas, rafRunning, now, demoTimers, fsTimers, currentQuizAnswer,
                 quizQuestion, probe>>

\* radiusInput 'input' listener, for the parsed value val
radiusInput(val) ==
    /\ Dispatch("radiusInput")
    /\ state' = IF IsPositive(val)
                THEN resetSimulation(
                         updatePixelScale([state EXCEPT !.radius = val.v], canvas))
                ELSE state
    /\ NoRequest
    /\ shown' = IF IsPositive(val) THEN updateUI(state') ELSE shown
    /\ drawn' = IF IsPositive(val) THEN draw(state') ELSE drawn
    /\ UNCHANGED <<canvas, rafRunning, now, demoTimers, fsTimers, currentQuizAnswer,
                   quizQuestion, probe>>

InputRadius == \E val \in RadiusInputs : radiusInput(val)

\* revInput 'input' listener, for the parsed value val
revInput(val) ==
    /\ Dispatch("revInput")
    /\ state' = IF IsPositive(val)
                THEN [state EXCEPT !.targetRevolutions = val.v * RevUnit]
                ELSE state
    /\ NoRequest
    /\ shown' = IF IsPositive(val) THEN updateUI(state') ELSE shown
    /\ drawn' = IF IsPositive(val) THEN draw(state') ELSE drawn
    /\ UNCHANGED <<canvas, rafRunning, now, demoTimers, fsTimers, currentQuizAnswer,
                   quizQuestion, probe>>

InputRev == \E val \in RevInputs : revInput(val)

\* piMode radio 'change' listener
ChangePiMode ==
    \E value \in PiModes :
        /\ Dispatch("piMode")
        /\ state' = [state EXCEPT !.piMode = value]
        /\ NoRequest
        /\ shown' = updateUI(state')
        /\ UNCHANGED drawn
        /\ UNCHANGED <<canvas, rafRunning, now, demoTimers, fsTimers, currentQuizAnswer,
                     quizQuestion, probe>>

ClickOneRev ==
    /\ Dispatch("oneRev")
    /\ state' = startAnimation(
                    resetSimulation([state EXCEPT !.targetRevolutions = 1 * RevUnit]))
    /\ RequestFrame
    /\ shown' = updateUI(state')
    /\ drawn' = draw(state')
    /\ UNCHANGED <<canvas, rafRunning, now, demoTimers, fsTimers, currentQuizAnswer,
                 quizQuestion, probe>>

ClickSpeed ==
    \E speed \in SpeedButtons :
        /\ Dispatch("speed")
        /\ state' = [state EXCEPT !.speedMultiplier = speed]
        /\ NoRequest
        /\ UNCHANGED <<shown, drawn>>
        /\ UNCHANGED <<canvas, rafRunning, now, demoTimers, fsTimers, currentQuizAnswer,
                     quizQuestion, probe>>

\* 'fullscreenchange' listener: setTimeout(..., 100)
FullscreenChange ==
    /\ Dispatch("fullscreenchange")
    /\ fsTimers < MaxTimers
    /\ fsTimers' = fsTimers + 1
    /\ NoRequest
    /\ UNCHANGED <<state, canvas, rafRunning, now, demoTimers, currentQuizAnswer,
                 shown, drawn, quizQuestion, probe>>

\* resizeCanvas(); updatePixelScale(); draw();
Resized(cv) ==
    /\ canvas' = cv
    /\ state' = updatePixelScale(state, cv)
    /\ drawn' = draw(state')
    /\ UNCHANGED shown

FullscreenTimer ==
    \E cv \in Viewports :
        /\ rafRunning = 0
        /\ fsTimers > 0
        /\ Callback("fullscreenTimer")
        /\ fsTimers' = fsTimers - 1
        /\ Resized(cv)
        /\ NoRequest
        /\ UNCHANGED <<rafRunning, now, demoTimers, currentQuizAnswer,
                     quizQuestion, probe>>

\* window 'resize' listener
WindowResize ==
    \E cv \in Viewports :
        /\ Dispatch("resize")
        /\ Resized(cv)
        /\ NoRequest
        /\ UNCHANGED <<rafRunning, now, demoTimers, fsTimers, currentQuizAnswer,
                     quizQuestion, probe>>

ClickDemo ==
    /\ Dispatch("demo")
    /\ demoTimers < MaxTimers
    /\ state' = resetSimulation(
                    updatePixelScale(
                        [state EXCEPT !.radius = 56,
                                      !.targetRevolutions = 10 * RevUnit,
                                      !.speedMultiplier = 1 * SpeedUnit,
                                      !.mode = "demo",
                                      !.piMode = "3.14"],
                        canvas))
    /\ demoTimers' = demoTimers + 1
    /\ NoRequest
    /\ shown' = updateUI(state')
    /\ drawn' = draw(state')
    /\ UNCHANGED <<canvas, rafRunning, now, fsTimers, currentQuizAnswer,
                 quizQuestion, probe>>

\* setTimeout(() => startAnimation(), 1000) fires
DemoTimer ==
    /\ rafRunning = 0
    /\ demoTimers > 0
    /\ Callback("demoTimer")
    /\ demoTimers' = demoTimers - 1
    /\ state' = startAnimation(state)
    /\ RequestFrame
    /\ UNCHANGED <<shown, drawn>>
    /\ UNCHANGED <<canvas, rafRunning, now, fsTimers, currentQuizAnswer,
                 quizQuestion, probe>>

ClickTab ==
    \E tab \in {"stepMode", "quizMode"} :
        /\ Dispatch("tab")
        /\ state' = [state EXCEPT !.mode = IF tab = "stepMode" THEN "step" ELSE "quiz"]
        /\ NoRequest
        /\ UNCHANGED <<shown, drawn>>
        /\ UNCHANGED <<canvas, rafRunning, now, demoTimers, fsTimers, currentQuizAnswer,
                     quizQuestion, probe>>

\* stepScenario.length
stepScenarioLength == 5

\* stepScenario[i].action(), as a change of the state object
stepAction(i, s) ==
    CASE i = 0 -> resetSimulation([s EXCEPT !.radius = 56])
      [] i = 2 -> startAnimation([s EXCEPT !.targetRevolutions = 1 * RevUnit])
      [] i = 3 -> startAnimation([s EXCEPT !.targetRevolutions = 10 * RevUnit])
      [] OTHER -> s

\* the steps whose action calls startAnimation()
stepStarts(i) == i \in {2, 3}

ClickNextStep ==
    /\ Dispatch("nextStep")
    /\ IF state.stepIndex < stepScenarioLength
       THEN /\ state' = [stepAction(state.stepIndex, state)
                            EXCEPT !.stepIndex = state.stepIndex + 1]
            /\ IF stepStarts(state.stepIndex) THEN RequestFrame ELSE NoRequest
       ELSE /\ state' = [state EXCEPT !.stepIndex = 0]
            /\ NoRequest
    /\ shown' = IF state.stepIndex = 0 THEN updateUI(state') ELSE shown
    /\ drawn' = IF state.stepIndex = 0 THEN draw(state') ELSE drawn
    /\ UNCHANGED <<canvas, rafRunning, now, demoTimers, fsTimers, currentQuizAnswer,
                 quizQuestion, probe>>

\* quiz answer key: circ * rev with circ = 2 * piVal * r
quizAnswerKey(s, r, rev) == Ratio(2 * getPiValue(s).n * r * rev, getPiValue(s).d)

ClickStartQuiz ==
    \E r \in QuizRadii, rev \in QuizRevs :
        /\ Dispatch("startQuiz")
        /\ state' = resetSimulation(
                        [state EXCEPT !.radius = r,
                                      !.targetRevolutions = rev * RevUnit])
        /\ currentQuizAnswer' = quizAnswerKey(state', r, rev)
        /\ NoRequest
        /\ shown' = updateUI(state')
        /\ drawn' = draw(state')
        /\ quizQuestion' = [r |-> r, rev |-> rev]
        /\ UNCHANGED <<canvas, rafRunning, now, demoTimers, fsTimers,
                     probe>>

\* Math.round(x) for x = q.n / q.d >= 0
Round(q) == (2 * q.n + q.d) \div (2 * q.d)

Abs(x) == IF x < 0 THEN -x ELSE x

\* Math.abs(userAnswer - correct) <= 5, false for NaN
quizAccepts(userAnswer, answer) ==
    ~userAnswer.nan /\ Abs(userAnswer.v - Round(answer)) <= 5

ClickSubmitQuiz ==
    \E userAnswer \in AnswerInputs :
        /\ Dispatch("submitQuiz")
        /\ IF quizAccepts(userAnswer, currentQuizAnswer)
           THEN /\ state' = [startAnimation(state) EXCEPT !.quizCallback = TRUE]
                /\ RequestFrame
           ELSE /\ UNCHANGED state
                /\ NoRequest
        /\ UNCHANGED <<shown, drawn>>
        /\ UNCHANGED <<canvas, rafRunning, now, demoTimers, fsTimers, currentQuizAnswer,
                     quizQuestion, probe>>

Next ==
    \/ BeginFrame
    \/ Animate
    \/ ClickPlayPause
    \/ ClickReset
    \/ InputRadius
    \/ InputRev
    \/ ChangePiMode
    \/ ClickOneRev
    \/ ClickSpeed
    \/ FullscreenChange
    \/ FullscreenTimer
    \/ WindowResize
    \/ ClickDemo
    \/ DemoTimer
    \/ ClickTab
    \/ ClickNextStep
    \/ ClickStartQuiz
    \/ ClickSubmitQuiz

Spec == Init /\ [][Next]_vars

\* ---------------------------------------------- computations on their own
\* draw()'s camera and updatePixelScale() applied to inputs drawn from bounded
\* sets: canvas sizes, pixel distances (1/PxUnit px), radii and scales
MaxProbeRadius == 60
MaxProbeDist == 80
MaxProbeScale == 100
ProbeViewports ==
    {[width |-> 0, height |-> 0], [width |-> 30, height |-> 60],
     [width |-> 40, height |-> 70], [width |-> 41, height |-> 71],
     [width |-> 320, height |-> 480], [width |-> 1000, height |-> 600],
     [width |-> 1920, height |-> 1080], [width |-> 3000, height |-> 3000]}
ProbeDists == {k * 125 : k \in 0..MaxProbeDist}
ProbeRadii == 1..MaxProbeRadius
\* the scales n, n/10, n/100 and n/1000 of the clamped range
ProbeScales ==
    {ps \in {Ratio(n, d) : n \in 1..MaxProbeScale, d \in {1, 10, 100, 1000}} :
        1000 * ps.n >= ps.d /\ ps.n <= 100 * ps.d}

InitProbe ==
    /\ InitProgram
    /\ \/ \E cv \in ProbeViewports, pd \in ProbeDists :
              probe = [NoProbe EXCEPT !.op = "drawInput", !.canvas = cv, !.pixelDist = pd]
       \/ \E cv \in ProbeViewports, r \in ProbeRadii :
              probe = [NoProbe EXCEPT !.op = "scaleInput", !.canvas = cv, !.radius = r]
       \/ \E ps \in ProbeScales :
              probe = [NoProbe EXCEPT !.op = "markerInput", !.pixelScale = ps]

\* draw(): the camera offset for the probed pixel distance and canvas
ProbeDraw ==
    /\ probe.op = "drawInput"
    /\ probe' = [probe EXCEPT !.op = "draw",
                              !.offsetX = cameraOffset(probe.pixelDist, probe.canvas)]
    /\ UNCHANGED <<state, canvas, rafPending, rafRunning, now, demoTimers, fsTimers,
                   currentQuizAnswer, shown, drawn, quizQuestion,
                   quizCallbackCalls, ticksSinceStart, events, lastOp>>

\* updatePixelScale() for the probed radius and canvas
ProbeUpdatePixelScale ==
    /\ probe.op = "scaleInput"
    /\ LET s == updatePixelScale([state EXCEPT !.radius = probe.radius], probe.canvas)
       IN  probe' = [probe EXCEPT !.op = "updatePixelScale",
                                  !.pixelScale = s.pixelScale,
                                  !.markerInterval = s.markerInterval]
    /\ UNCHANGED <<state, canvas, rafPending, rafRunning, now, demoTimers, fsTimers,
                   currentQuizAnswer, shown, drawn, quizQuestion,
                   quizCallbackCalls, ticksSinceStart, events, lastOp>>

\* the marker interval part of updatePixelScale() (lines 90-105) for the
\* probed scale
ProbeMarkerInterval ==
    /\ probe.op = "markerInput"
    /\ probe' = [probe EXCEPT !.op = "markerInterval",
                              !.markerInterval = computeMarkerInterval(probe.pixelScale)]
    /\ UNCHANGED <<state, canvas, rafPending, rafRunning, now, demoTimers, fsTimers,
                   currentQuizAnswer, shown, drawn, quizQuestion,
                   quizCallbackCalls, ticksSinceStart, events, lastOp>>

NextProbe ==
    \/ ProbeDraw
    \/ ProbeUpdatePixelScale
    \/ ProbeMarkerInterval

SpecProbe == InitProbe /\ [][NextProbe]_vars

\* ------------------------------------------------- a run left to itself
\* A run that has just been started and is then left alone: the user has set
\* a radius, a target, a speed and a pi mode and pressed Start (once, or again
\* while the first request was still pending); from then on only animation
\* frames happen.
LiveRadii == {1, 20, 56}
LiveTargets == {1, 2, 10}

InitLive ==
    /\ \E r \in LiveRadii, target \in LiveTargets, speed \in SpeedButtons,
          value \in PiModes, requests \in 1..MaxPending :
           /\ state = startAnimation(
                          resetSimulation(
                              updatePixelScale(
                                  [InitState EXCEPT !.radius = r,
                                                    !.targetRevolutions = target * RevUnit,
                                                    !.speedMultiplier = speed,
                                                    !.piMode = value],
                                  InitCanvas)))
           /\ rafPending = requests * startAnimationRequests
    /\ canvas = InitCanvas
    /\ rafRunning = 0
    /\ now = 1000
    /\ demoTimers = 0
    /\ fsTimers = 0
    /\ currentQuizAnswer = Ratio(0, 1)
    /\ shown = updateUI(state)
    /\ drawn = draw(state)
    /\ quizQuestion = NoQuestion
    /\ probe = NoProbe
    /\ quizCallbackCalls = 0
    /\ ticksSinceStart = 0
    /\ events = 0
    /\ lastOp = "playPause"

\* The browser starts an animation frame, without end. animate() uses the
\* timestamps only through timestamp - lastTime and the test of lastTime
\* against 0, so the origin of the clock is moved back whenever the timestamp
\* would pass MaxSeconds: the frame before is then counted as second 1.
DeliverFrame ==
    \E d \in FrameDeltas :
        LET shift == IF now + d > MaxSeconds * 1000 THEN now - 1000 ELSE 0
        IN  /\ rafRunning = 0
            /\ rafPending > 0
            /\ Callback("frame")
            /\ now' = now + d - shift
            /\ state' = [state EXCEPT !.lastTime = IF @ = 0 THEN 0 ELSE @ - shift]
            /\ rafRunning' = rafPending
            /\ rafPending' = 0
            /\ UNCHANGED <<canvas, demoTimers, fsTimers, currentQuizAnswer,
                           shown, drawn, quizQuestion, probe,
                           quizCallbackCalls, ticksSinceStart>>

NextLive ==
    \/ DeliverFrame
    \/ Animate

\* requestAnimationFrame: the browser runs every requested callback in the
\* next frame and frames keep coming, so both steps are weakly fair
SpecLive ==
    /\ InitLive
    /\ [][NextLive]_vars
    /\ WF_vars(DeliverFrame)
    /\ WF_vars(Animate)

\* ================================================================ claims
\* steps, told by the listener or callback that ran
AnimateStep == lastOp' = "animate"

\* the delta animate() computes in the step about to run
TickDelta == IF state.lastTime = 0 THEN 0 ELSE now' - state.lastTime

\* the steps in which startAnimation() is called
StartStep ==
    \/ lastOp' = "playPause" /\ ~state.isPlaying
    \/ lastOp' = "demoTimer"
    \/ lastOp' = "oneRev"
    \/ lastOp' = "nextStep" /\ state.stepIndex \in {2, 3}
    \/ lastOp' = "submitQuiz" /\ rafPending' > rafPending

\* C1: in every reachable state currentRevolutions <= targetRevolutions.
C1_CurrentNeverExceedsTarget ==
    state.currentRevolutions <= state.targetRevolutions

\* C2: a frame tick executed with isPlaying = true in which the advanced
\* currentRevolutions becomes >= targetRevolutions ends with
\* currentRevolutions exactly targetRevolutions and isPlaying = false.
C2_CompletionClamp ==
    [][(/\ AnimateStep
        /\ state.isPlaying
        /\ state.currentRevolutions + dRev(state, TickDelta) >= state.targetRevolutions)
       => (/\ state'.currentRevolutions = state.targetRevolutions
           /\ state'.targetRevolutions = state.targetRevolutions
           /\ ~state'.isPlaying)]_vars

\* a tick has just run, and the run that went through at least two ticks
\* stands stopped exactly at a positive target
C2_Witness ==
    /\ lastOp = "animate"
    /\ ticksSinceStart = 2
    /\ ~state.isPlaying
    /\ state.currentRevolutions = state.targetRevolutions
    /\ state.lastTime = now

\* C3: in every reachable state pixelScale and markerInterval are the values
\* the scale computation yields for the current radius and canvas size.
C3_ScaleConsistent ==
    /\ state.pixelScale = computePixelScale(state.radius, canvas)
    /\ state.markerInterval = computeMarkerInterval(computePixelScale(state.radius, canvas))

\* C4: the tick that brings currentRevolutions to targetRevolutions calls the
\* registered completion callback, whatever the mode, and the callback is
\* called exactly once in the run.
C4_CompletionCallsCallbackOnce ==
    [][(/\ AnimateStep
        /\ state.isPlaying
        /\ ~state'.isPlaying
        /\ state.quizCallback)
       => quizCallbackCalls' = 1]_vars

\* C5: a frame tick run while isPlaying is false (after pause() or reset(),
\* until the next start()) leaves currentRevolutions untouched, and pause()
\* changes nothing but isPlaying.
C5_PausedTickKeepsRevolutions ==
    [][/\ (AnimateStep /\ ~state.isPlaying)
            => /\ state'.currentRevolutions = state.currentRevolutions
               /\ ~state'.isPlaying
       /\ (lastOp' = "playPause" /\ state.isPlaying)
            => /\ ~state'.isPlaying
               /\ [state' EXCEPT !.isPlaying = TRUE] = state]_vars

\* a pending frame callback has run while the simulation was paused mid-run
C5_Witness ==
    /\ lastOp = "animate"
    /\ ~state.isPlaying
    /\ state.currentRevolutions > 0
    /\ state.currentRevolutions < state.targetRevolutions

\* C6: startAnimation() rewinds currentRevolutions to 0 when it had reached
\* targetRevolutions and keeps it otherwise; afterwards isPlaying is true
\* and lastTime is cleared.
C6_StartRewindsOrResumes ==
    [][StartStep
       => LET before == IF lastOp' = "oneRev" THEN 0 ELSE state.currentRevolutions
          IN  /\ state'.currentRevolutions =
                    IF before >= state'.targetRevolutions THEN 0 ELSE before
              /\ state'.isPlaying
              /\ state'.lastTime = 0]_vars

\* the play button has resumed a run that was paused part-way
C6_Witness ==
    /\ lastOp = "playPause"
    /\ state.isPlaying
    /\ state.lastTime = 0
    /\ state.currentRevolutions > 0
    /\ state.currentRevolutions < state.targetRevolutions

\* C7: the first frame tick after a startAnimation() does not advance
\* currentRevolutions: a run below its target is left exactly where it was.
C7_FirstTickDoesNotAdvance ==
    [][(AnimateStep /\ ticksSinceStart = 0)
       => /\ state'.currentRevolutions <= state.currentRevolutions
          /\ state.currentRevolutions < state.targetRevolutions
                => /\ state'.currentRevolutions = state.currentRevolutions
                   /\ state'.isPlaying = state.isPlaying]_vars

\* the first tick after a resume has run, later than the frame before the
\* pause, and the wheel is still playing part-way
C7_Witness ==
    /\ lastOp = "animate"
    /\ ticksSinceStart = 1
    /\ state.isPlaying
    /\ state.currentRevolutions > 0
    /\ state.lastTime = now

\* C8: a frame tick that starts and ends with isPlaying = true does not
\* decrease currentRevolutions.
C8_MonotoneWhilePlaying ==
    [][(AnimateStep /\ state.isPlaying /\ state'.isPlaying)
       => state'.currentRevolutions >= state.currentRevolutions]_vars

\* the wheel is playing and a tick after the first one has advanced it
C8_Witness ==
    /\ lastOp = "animate"
    /\ ticksSinceStart = 2
    /\ state.isPlaying
    /\ state.currentRevolutions > 0

\* C9: resetSimulation() leaves isPlaying = false, currentRevolutions = 0
\* and lastTime cleared, changes no other field, and resetting the result
\* again changes nothing: a reset right after a reset is a no-op.
C9_ResetIdempotent ==
    [][lastOp' = "reset"
       => /\ ~state'.isPlaying
          /\ state'.currentRevolutions = 0
          /\ state'.lastTime = 0
          /\ [state' EXCEPT !.isPlaying = state.isPlaying,
                            !.currentRevolutions = state.currentRevolutions,
                            !.lastTime = state.lastTime] = state
          /\ resetSimulation(state') = state'
          /\ lastOp = "reset" => state' = state]_vars

\* the reset button was pressed while a frame callback of a run was pending
C9_Witness ==
    /\ lastOp = "reset"
    /\ rafPending > 0
    /\ now > 1000

\* C10: a frame callback that ends with isPlaying = false and
\* currentRevolutions = 0 requests no frame, and when it was the last
\* callback of its frame no callback is pending.
C10_IdleTeardown ==
    [][(AnimateStep /\ ~state'.isPlaying /\ state'.currentRevolutions = 0)
       => /\ rafPending' = rafPending
          /\ rafRunning' = 0 => rafPending' = 0]_vars

\* the callback left over from a reset run has run and the loop has ended
C10_Witness ==
    /\ lastOp = "animate"
    /\ ~state.isPlaying
    /\ state.currentRevolutions = 0
    /\ rafRunning = 0
    /\ rafPending = 0

\* C11: within every frame callback the clock advances first, then draw()
\* renders, then updateUI() updates the numeric displays: no updateUI() call
\* comes before the frame's draw(), the completing frame included, and every
\* call reads the state the clock advancement left.
C11_RenderBeforeDisplay ==
    [][AnimateStep =>
         LET calls == animateCalls(state, now)
         IN  \A i \in 1..Len(calls) :
                 /\ calls[i].reads = state'
                 /\ calls[i].call = "updateUI"
                        => \E j \in 1..(i - 1) : calls[j].call = "draw"]_vars

\* C12: a piMode change takes effect at once for every value derived from the
\* circumference: after the change the displayed circumference and distance,
\* the rendered wheel and the quiz answer key are all those of the new mode.
C12_PiModeAtomic ==
    [][lastOp' = "piMode" =>
         /\ shown'.circumference = calculateCircumference(state', state'.radius)
         /\ drawn' # BlankCanvas
                => drawn'.circumference = calculateCircumference(state', state'.radius)
         /\ quizQuestion' # NoQuestion
                => currentQuizAnswer'
                       = quizAnswerKey(state', quizQuestion'.r, quizQuestion'.rev)]_vars

\* C13: a radius input or revolutions input whose parsed value is zero,
\* negative or not a number changes none of radius, targetRevolutions,
\* currentRevolutions, isPlaying, pixelScale and markerInterval.
C13_InvalidInputIgnored ==
    [][(/\ lastOp' \in {"radiusInput", "revInput"}
        /\ \E val \in RadiusInputs \cup RevInputs :
               /\ val.nan \/ val.v <= 0
               /\ radiusInput(val) \/ revInput(val))
       => /\ state'.radius = state.radius
          /\ state'.targetRevolutions = state.targetRevolutions
          /\ state'.currentRevolutions = state.currentRevolutions
          /\ state'.isPlaying = state.isPlaying
          /\ state'.pixelScale = state.pixelScale
          /\ state'.markerInterval = state.markerInterval]_vars

\* the radius listener has just run on a wheel that is still rolling: a valid
\* radius would have reset it
C13_Witness ==
    /\ lastOp = "radiusInput"
    /\ state.isPlaying
    /\ state.currentRevolutions > 0

\* 0.001 <= ps <= 100
InClampedRange(ps) == ps.d > 0 /\ 1000 * ps.n >= ps.d /\ ps.n <= 100 * ps.d

\* C14: in every reachable state pixelScale lies in [0.001, 100], whatever
\* the positive radius and the canvas size, canvases smaller than the 70 / 40
\* pixel margins included.
C14_PixelScaleInRange == InClampedRange(state.pixelScale)

\* the window has just shrunk below the margins and the scale computed for
\* it sits on the lower clamp
C14_Witness ==
    /\ lastOp = "resize"
    /\ canvas.width < 40
    /\ canvas.height < 70
    /\ state.pixelScale = Ratio(1, 1000)

\* C15: the camera offset is max(0, startX + pixelDist - 0.6 * width): the
\* wheel is painted at startX + pixelDist - offsetX, never right of 60% of
\* the canvas width, and the offset is 0 while the wheel is within the left
\* 60%; width 1000 and pixel distance 700 give the offset 150.
C15_CameraOffset ==
    probe.op = "draw" =>
        LET wheelX == startX * PxUnit + probe.pixelDist
            limit == probe.canvas.width * 6
        IN  /\ probe.offsetX = IF wheelX - limit > 0 THEN wheelX - limit ELSE 0
            /\ wheelX - probe.offsetX <= limit
            /\ wheelScreenX(probe.pixelDist, probe.canvas) = wheelX - probe.offsetX
            /\ wheelX <= limit => probe.offsetX = 0
            /\ (probe.canvas.width = 1000 /\ probe.pixelDist = 700 * PxUnit)
                   => probe.offsetX = 150 * PxUnit

\* draw() has run for canvas width 1000 and pixel distance 700, and pans by 150
C15_Witness ==
    /\ probe.op = "draw"
    /\ probe.canvas.width = 1000
    /\ probe.pixelDist = 700 * PxUnit
    /\ probe.offsetX = 150 * PxUnit

RECURSIVE IsPowerOfTen(_)
IsPowerOfTen(v) == v = 1 \/ (v > 1 /\ v % 10 = 0 /\ IsPowerOfTen(v \div 10))

\* v = d * 10^k with d in {1, 2, 10}
IsRoundInterval(v) == \E d \in {1, 2, 10} : v % d = 0 /\ IsPowerOfTen(v \div d)

\* C16: for every pixelScale of the clamped range the computed markerInterval
\* is d * 10^k with d in {1, 2, 10}, and at least 1 cm.
C16_MarkerIntervalRound ==
    probe.op \in {"updatePixelScale", "markerInterval"} =>
        /\ InClampedRange(probe.pixelScale)
        /\ probe.markerInterval >= 1
        /\ IsRoundInterval(probe.markerInterval)

\* the interval computed for the scale 0.09: 180 / 0.09 = 2000 cm
C16_Witness ==
    /\ probe.op = "markerInterval"
    /\ probe.pixelScale = Ratio(9, 100)
    /\ probe.markerInterval = 2000

\* C17: a run started with currentRevolutions < targetRevolutions and left
\* to itself, with frames delivered at strictly increasing timestamps,
\* eventually stands at isPlaying = false and currentRevolutions =
\* targetRevolutions.
C17_RunCompletes ==
    (state.isPlaying /\ state.currentRevolutions < state.targetRevolutions)
        ~> (~state.isPlaying /\ state.currentRevolutions = state.targetRevolutions)

\* the default wheel (radius 56, 10 revolutions) has just been stopped at its
\* target by a tick of the run left to itself
C17_Witness ==
    /\ lastOp = "animate"
    /\ ticksSinceStart = 2
    /\ state.radius = 56
    /\ ~state.isPlaying
    /\ state.currentRevolutions = 10 * RevUnit
    /\ state.targetRevolutions = 10 * RevUnit

\* C18: at most one animation-frame callback is outstanding at any time,
\* whatever the sequence of start, pause, reset, one-revolution, step and
\* quiz actions and frames: the requests waiting for the next frame and the
\* callbacks of the current frame still to run number at most one.
C18_AtMostOnePending == rafPending + rafRunning <= 1

\* C19: between events, a simulation that is playing or has
\* currentRevolutions > 0 has at least one animation-frame callback pending.
C19_NeverStalled ==
    (rafRunning = 0 /\ (state.isPlaying \/ state.currentRevolutions > 0))
        => rafPending >= 1

\* a tick has just run on a paused wheel that stands past its start, and
\* has requested the next frame
C19_Witness ==
    /\ lastOp = "animate"
    /\ rafRunning = 0
    /\ ~state.isPlaying
    /\ state.currentRevolutions > 0
    /\ state.currentRevolutions < state.targetRevolutions
    /\ rafPending = 1

\* C20: after the user has reset the simulation isPlaying stays false until
\* the user performs another starting action: right after a reset only the
\* Start, one-revolution, next-step and quiz-submit listeners set it, and
\* the delayed start of a demo clicked before the reset does not.
C20_ResetHoldsUntilUserStart ==
    [][(lastOp = "reset" /\ ~state.isPlaying /\ state'.isPlaying)
          => lastOp' \in {"playPause", "oneRev", "nextStep", "submitQuiz"}]_vars
====
